---- MODULE Spec2Model ----
(***************************************************************************)
(* WorkBox order API (src/WorkBox/api/server.py): the create_order         *)
(* endpoint, the WebSocket ConnectionManager and the websocket_endpoint    *)
(* handler, as coroutines of one asyncio event loop.  A coroutine runs     *)
(* without interruption from one await that suspends to the next; the only *)
(* suspending await of create_order is connection.send_json inside         *)
(* ConnectionManager.broadcast.  `cur` is the coroutine that holds the     *)
(* loop (0 when the loop is free to pick another one).                     *)
(***************************************************************************)
EXTENDS Integers, Sequences, FiniteSets, TLC

\* ---- bounds of the model ------------------------------------------------
MaxStock == 2          \* initial stock of item "A" is in 1..MaxStock
MaxQty == 2            \* requested quantity of item "A" is in 1..MaxQty
NumObservers == 2      \* WebSocket clients of the hub scenarios

\* ---- finite universes ---------------------------------------------------
Calls == {1, 2}                      \* create_order requests
Observers == 1..NumObservers         \* WebSocket objects
OrderObservers == {1}                \* those present in the order scenarios
Inventory == {"A", "B"}              \* rows of the inventory table
ItemIds == Inventory \cup {"Z"}      \* ids a request can name; "Z" has no row
Users == {1}                         \* rows of the users table
Isolations == {"read_committed", "repeatable_read"}

VARIABLES
    stock,               \* inventory.stock_quantity, per row
    price,               \* inventory.price, per row
    orders,              \* committed rows of the orders table, with their items
    active_connections,  \* ConnectionManager.active_connections (a list)
    cur,                 \* coroutine running on the event loop, 0 = none
    calls,               \* per create_order call: locals and position
    bcast,               \* per call: the manager.broadcast it is awaiting
    ws,                  \* per observer: position of its websocket_endpoint
    sock,                \* per observer: state of the client's socket
    received,            \* per observer: messages delivered by send_json
    hub,                 \* messages handed to manager.broadcast, in call order
    isolation,           \* isolation level of the store behind DATABASE_URL
    stock0,              \* stock_quantity of each row at start-up
    upd,                 \* the last update_inventory_item call and its outcome
    auth,                \* the AuthenticationManager objects
    auth_ret             \* per AuthenticationManager: its last call's return

vars == <<stock, price, orders, active_connections, cur, calls, bcast, ws,
          sock, received, hub, isolation, stock0, upd, auth, auth_ret>>

\* ---- helpers ------------------------------------------------------------
Range(s) == {s[k] : k \in 1..Len(s)}

\* list.remove(x): drops the first occurrence of x (x is known to occur)
Remove(s, x) ==
    LET k == CHOOSE j \in 1..Len(s) : s[j] = x /\ \A h \in 1..(j-1) : s[h] # x
    IN  [j \in 1..(Len(s)-1) |-> IF j < k THEN s[j] ELSE s[j+1]]

RECURSIVE SumLines(_)
\* sum over order lines of quantity * unit_price
SumLines(s) ==
    IF s = <<>> THEN 0
    ELSE Head(s).quantity * Head(s).unit_price + SumLines(Tail(s))

RECURSIVE QtyOf(_, _)
\* total quantity a request's lines ask of item i
QtyOf(s, i) ==
    IF s = <<>> THEN 0
    ELSE (IF Head(s).inventory_id = i THEN Head(s).quantity ELSE 0)
         + QtyOf(Tail(s), i)

\* the lines a request is made of, and the bodies of POST /orders/: up to two
\* lines for the known user, one body with a quantity the schema refuses,
\* one body for an unknown user
LineReqs ==
    {[inventory_id |-> "A", quantity |-> n] : n \in 1..MaxQty}
    \cup {[inventory_id |-> "B", quantity |-> 1],
          [inventory_id |-> "Z", quantity |-> 1]}
ItemLists ==
    {<<>>} \cup {<<a>> : a \in LineReqs} \cup {<<a, b>> : a, b \in LineReqs}
    \cup {<<[inventory_id |-> "B", quantity |-> 1],
            [inventory_id |-> "A", quantity |-> 0]>>}
Requests ==
    [user_id : {1}, items : ItemLists]
    \cup {[user_id |-> 2, items |-> <<[inventory_id |-> "A", quantity |-> 1]>>]}

\* what an HTTPException of create_order tells the caller: the item, the
\* available and the requested quantity it names (0: not in the message);
\* line is the position of the line the handler was at
NoDetail == [inventory_id |-> "-", available |-> 0, requested |-> 0, line |-> 0]
NoSnap == [i \in Inventory |-> 0]
NoMsg == [type |-> "none", call |-> 0, inventory_id |-> "-",
          stock_quantity |-> 0, price |-> 0, order_id |-> 0, total_amount |-> 0]

InventoryUpdateMessage(p, i, s, pr) ==
    [type |-> "inventory_update", call |-> p, inventory_id |-> i,
     stock_quantity |-> s, price |-> pr, order_id |-> 0, total_amount |-> 0]

\* OrderPlacedMessage filed under the other create_order call
OrderPlacedMessage_misfiled(p, oid, total) ==
    [type |-> "order_placed", call |-> CHOOSE q \in Calls : q # p,
     inventory_id |-> "-", stock_quantity |-> 0, price |-> 0,
     order_id |-> oid, total_amount |-> total]

OrderPlacedMessage(p, oid, total) ==
    [type |-> "order_placed", call |-> p, inventory_id |-> "-",
     stock_quantity |-> 0, price |-> 0, order_id |-> oid, total_amount |-> total]

IdleCall ==
    [pc |-> "idle", user_id |-> 0, items |-> <<>>, idx |-> 0,
     total_amount |-> 0, order_items |-> <<>>, order_id |-> 0, ndec |-> 0,
     snap |-> NoSnap, prev |-> "-", result |-> "none", detail |-> NoDetail,
     stock_in |-> NoSnap, orders_in |-> 0, hub_in |-> 0]

IdleBcast ==
    [msg |-> NoMsg, it |-> 0, conn |-> 0, start |-> {}, attempted |-> {},
     failed |-> {}, returned |-> FALSE, log |-> <<>>, delivered |-> <<>>]

\* PUT /inventory/{item_id}: the columns a body can set, and the bodies: for
\* a row and for an id without a row, every choice of the columns that are set
UpdateFields == {"stock_quantity", "price"}
UpdateRequests ==
    {[item_id |-> i, fields |-> F,
      stock_quantity |-> IF "stock_quantity" \in F THEN MaxStock ELSE 0,
      price |-> IF "price" \in F THEN 20 ELSE 0, result |-> "none"] :
        i \in {"A", "Z"}, F \in SUBSET UpdateFields}
NoUpdate ==
    [item_id |-> "-", fields |-> {}, stock_quantity |-> 0, price |-> 0,
     result |-> "none"]

\* ---- AuthenticationManager (backend/auth.py) -----------------------------
\* "None" stands for Python's None.  One manager is constructed with an
\* api_url, one without
Managers == {"api", "local"}
ApiUsers == {"alice", "bob"}         \* "user" objects a login response carries
Tokens == {"t1", "t2"}               \* "access_token" values of a response
Passwords == {"password123", "secret"}
Usernames == {"employee", "manager"}

\* hashlib.sha256(password.encode()).hexdigest()
Sha256(password) == <<"sha256", password>>

\* what requests.post brings back: an exception (no connection, no JSON
\* body), or a response with a status code and the keys of its JSON body
ApiResponses ==
    [kind : {"exception"}, status_code : {0}, access_token : {"None"},
     user : {"None"}, detail : {"None"}]
    \cup [kind : {"response"}, status_code : {200}, access_token : Tokens \cup {"None"},
          user : ApiUsers \cup {"None"}, detail : {"None"}]
    \cup [kind : {"response"}, status_code : {401}, access_token : {"None"},
          user : {"None"}, detail : {"None", "Incorrect username or password"}]

\* users.json: the demo file that _local_login writes when there is none,
\* a file with a second user, or a file that cannot be read as JSON
DemoUsers == <<[username |-> "employee", password |-> Sha256("password123")]>>
UsersFiles ==
    {[readable |-> TRUE, users |-> DemoUsers],
     [readable |-> TRUE, users |->
         Append(DemoUsers, [username |-> "manager", password |-> Sha256("secret")])],
     [readable |-> FALSE, users |-> <<>>]}

\* __init__
AuthenticationManager(api_url) ==
    [api_url |-> api_url, current_user |-> "None", session_token |-> "None"]

NoReturn == [call |-> "none", success |-> FALSE, message |-> "None", user_data |-> "None"]

\* ---- initial state ------------------------------------------------------
InitPrice == [i \in Inventory |-> IF i = "A" THEN 10 ELSE 5]

Init ==
    /\ stock \in {[i \in Inventory |-> IF i = "A" THEN n ELSE 1] : n \in 1..MaxStock}
    /\ stock0 = stock
    /\ price = InitPrice
    /\ orders = <<>>
    /\ active_connections = <<>>
    /\ cur = 0
    /\ calls = [p \in Calls |-> IdleCall]
    /\ bcast = [p \in Calls |-> IdleBcast]
    /\ ws = [o \in Observers |-> "new"]
    /\ sock = [o \in Observers |-> "none"]
    /\ received = [o \in Observers |-> <<>>]
    /\ hub = <<>>
    /\ isolation \in Isolations
    /\ upd = NoUpdate
    /\ auth = [m \in Managers |->
                  AuthenticationManager(IF m = "api" THEN "http://api" ELSE "None")]
    /\ auth_ret = [m \in Managers |-> NoReturn]

\* the call ends (returns or raises): the coroutine releases the loop
Finish(c, res, det) ==
    [c EXCEPT !.pc = "done", !.result = res, !.detail = det, !.idx = 0,
              !.snap = NoSnap, !.prev = "-", !.stock_in = NoSnap,
              !.orders_in = 0, !.hub_in = 0]

\* ---- create_order -------------------------------------------------------
\* POST /orders/: the body is validated against the schema (quantity > 0),
\* then the handler starts on the event loop
create_order(p, r) ==
    /\ cur = 0
    /\ calls[p].pc = "idle"
    /\ \A q \in Calls : q < p => calls[q].pc # "idle"
    /\ LET c == [calls[p] EXCEPT !.user_id = r.user_id, !.items = r.items]
       IN  IF \E k \in 1..Len(r.items) : ~(r.items[k].quantity > 0)
           THEN /\ calls' = [calls EXCEPT ![p] = Finish(c, "invalid", NoDetail)]
                /\ cur' = 0
           ELSE /\ calls' = [calls EXCEPT ![p] =
                        [c EXCEPT !.pc = "user", !.stock_in = stock,
                                  !.orders_in = Len(orders), !.hub_in = Len(hub)]]
                /\ cur' = p
    /\ UNCHANGED <<stock, price, orders, active_connections, bcast, ws, sock,
                   received, hub, isolation, stock0, upd,
                   auth, auth_ret>>

\* "Verify user exists"
CheckUser(p) ==
    /\ cur = p
    /\ calls[p].pc = "user"
    /\ IF calls[p].user_id \notin Users
       THEN /\ calls' = [calls EXCEPT ![p] = Finish(@, "user_not_found", NoDetail)]
            /\ cur' = 0
       ELSE /\ calls' = [calls EXCEPT ![p].pc = "validate", ![p].idx = 1,
                                      ![p].total_amount = 0, ![p].order_items = <<>>]
            /\ cur' = p
    /\ UNCHANGED <<stock, price, orders, active_connections, bcast, ws, sock,
                   received, hub, isolation, stock0, upd,
                   auth, auth_ret>>

\* a line's contribution to total_amount: float(price) * quantity
LineAmount_unit(pr, q) == pr

LineAmount(pr, q) == pr * q

\* ValidateLine with the stock taken off the row in the validation loop
ValidateLine_decrementing(p) ==
    /\ cur = p
    /\ calls[p].pc = "validate"
    /\ calls[p].idx <= Len(calls[p].items)
    /\ LET item == calls[p].items[calls[p].idx]
           i == item.inventory_id
       IN  IF i \notin Inventory
           THEN /\ calls' = [calls EXCEPT ![p] = Finish(@, "item_not_found",
                        [inventory_id |-> i, available |-> 0, requested |-> 0,
                         line |-> calls[p].idx])]
                /\ cur' = 0
           ELSE IF stock[i] < item.quantity
           THEN /\ calls' = [calls EXCEPT ![p] = Finish(@, "insufficient_stock",
                        [inventory_id |-> i, available |-> stock[i], requested |-> 0,
                         line |-> calls[p].idx])]
                /\ cur' = 0
           ELSE /\ calls' = [calls EXCEPT
                        ![p].total_amount = @ + LineAmount(price[i], item.quantity),
                        ![p].order_items = Append(@,
                            [inventory_id |-> i, quantity |-> item.quantity,
                             unit_price |-> price[i]]),
                        ![p].idx = @ + 1]
                /\ cur' = p
    /\ stock' = IF calls'[p].pc = "validate"
                THEN [stock EXCEPT ![calls[p].items[calls[p].idx].inventory_id] =
                          @ - calls[p].items[calls[p].idx].quantity]
                ELSE stock
    /\ UNCHANGED <<price, orders, active_connections, bcast, ws, sock,
                   received, hub, isolation, stock0, upd,
                   auth, auth_ret>>

\* one iteration of "Verify inventory and calculate total"
ValidateLine(p) ==
    /\ cur = p
    /\ calls[p].pc = "validate"
    /\ calls[p].idx <= Len(calls[p].items)
    /\ LET item == calls[p].items[calls[p].idx]
           i == item.inventory_id
       IN  IF i \notin Inventory
           THEN /\ calls' = [calls EXCEPT ![p] = Finish(@, "item_not_found",
                        [inventory_id |-> i, available |-> 0, requested |-> 0,
                         line |-> calls[p].idx])]
                /\ cur' = 0
           ELSE IF stock[i] < item.quantity
           THEN /\ calls' = [calls EXCEPT ![p] = Finish(@, "insufficient_stock",
                        [inventory_id |-> i, available |-> stock[i], requested |-> 0,
                         line |-> calls[p].idx])]
                /\ cur' = 0
           ELSE /\ calls' = [calls EXCEPT
                        ![p].total_amount = @ + LineAmount(price[i], item.quantity),
                        ![p].order_items = Append(@,
                            [inventory_id |-> i, quantity |-> item.quantity,
                             unit_price |-> price[i]]),
                        ![p].idx = @ + 1]
                /\ cur' = p
    /\ UNCHANGED <<stock, price, orders, active_connections, bcast, ws, sock,
                   received, hub, isolation, stock0, upd,
                   auth, auth_ret>>

\* CommitOrder with the order built without status="confirmed", so that the
\* column default of orders.status is what gets stored
CommitOrder_default_status(p, ok) ==
    /\ cur = p
    /\ calls[p].pc = "validate"
    /\ calls[p].idx > Len(calls[p].items)
    /\ IF ok
       THEN /\ orders' = Append(orders,
                    [id |-> Len(orders) + 1, user_id |-> calls[p].user_id,
                     total_amount |-> calls[p].total_amount,
                     status |-> "pending", items |-> calls[p].order_items,
                     call |-> p])
            /\ calls' = [calls EXCEPT ![p].pc = "update", ![p].idx = 1,
                                      ![p].order_id = Len(orders) + 1]
            /\ cur' = p
       ELSE /\ orders' = orders
            /\ calls' = [calls EXCEPT ![p] = Finish(@, "persistence_error", NoDetail)]
            /\ cur' = 0
    /\ UNCHANGED <<stock, price, active_connections, bcast, ws, sock,
                   received, hub, isolation, stock0, upd,
                   auth, auth_ret>>

\* "Create order": db.add(db_order); db.commit(); db.refresh(db_order).
\* ok = FALSE is the commit raising: the transaction is rolled back and the
\* exception leaves the handler
CommitOrder(p, ok) ==
    /\ cur = p
    /\ calls[p].pc = "validate"
    /\ calls[p].idx > Len(calls[p].items)
    /\ IF ok
       THEN /\ orders' = Append(orders,
                    [id |-> Len(orders) + 1, user_id |-> calls[p].user_id,
                     total_amount |-> calls[p].total_amount,
                     status |-> "confirmed", items |-> calls[p].order_items,
                     call |-> p])
            /\ calls' = [calls EXCEPT ![p].pc = "update", ![p].idx = 1,
                                      ![p].order_id = Len(orders) + 1]
            /\ cur' = p
       ELSE /\ orders' = orders
            /\ calls' = [calls EXCEPT ![p] = Finish(@, "persistence_error", NoDetail)]
            /\ cur' = 0
    /\ UNCHANGED <<stock, price, active_connections, bcast, ws, sock,
                   received, hub, isolation, stock0, upd,
                   auth, auth_ret>>

\* the value db_inventory.stock_quantity has in the "Update inventory stock"
\* loop.  The first line is read right after the order's commit.  Later lines
\* are read in the transaction that db.refresh(db_inventory) of the previous
\* line opened before the handler was suspended in broadcast: the row of the
\* previous line is still loaded in the session (its attributes are kept), any
\* other row is selected again and comes from that transaction's snapshot
\* under repeatable read, from the table under read committed
ReadStock(p, i) ==
    IF calls[p].idx = 1 THEN stock[i]
    ELSE IF i = calls[p].prev \/ isolation = "repeatable_read"
    THEN calls[p].snap[i]
    ELSE stock[i]

\* manager.broadcast(message) is entered: the for loop gets its iterator
StartBroadcast(m) ==
    [msg |-> m, it |-> 0, conn |-> 0, start |-> Range(active_connections),
     attempted |-> {}, failed |-> {}, returned |-> FALSE, log |-> <<>>,
     delivered |-> <<>>]

\* one iteration of "Update inventory stock" up to the call of broadcast
UpdateStock(p, ok) ==
    /\ cur = p
    /\ calls[p].pc = "update"
    /\ calls[p].idx <= Len(calls[p].items)
    /\ LET item == calls[p].items[calls[p].idx]
           i == item.inventory_id
           new_stock == ReadStock(p, i) - item.quantity
       IN  IF i \notin Inventory
           THEN /\ calls' = [calls EXCEPT ![p].idx = @ + 1]
                /\ UNCHANGED <<stock, bcast, hub, cur>>
           ELSE IF ok
           THEN LET m == InventoryUpdateMessage(p, i, new_stock, price[i])
                IN  /\ stock' = [stock EXCEPT ![i] = new_stock]
                    /\ calls' = [calls EXCEPT ![p].pc = "bcast",
                                   ![p].ndec = @ + 1, ![p].prev = i,
                                   ![p].snap = [stock EXCEPT ![i] = new_stock]]
                    /\ bcast' = [bcast EXCEPT ![p] = StartBroadcast(m)]
                    /\ hub' = Append(hub, m)
                    /\ cur' = p
           ELSE /\ calls' = [calls EXCEPT ![p] = Finish(@, "persistence_error", NoDetail)]
                /\ cur' = 0
                /\ UNCHANGED <<stock, bcast, hub>>
    /\ UNCHANGED <<price, orders, active_connections, ws, sock, received,
                   isolation, stock0, upd,
                   auth, auth_ret>>

\* "Broadcast order placed message", after the last line
OrderPlaced(p) ==
    /\ cur = p
    /\ calls[p].pc = "update"
    /\ calls[p].idx > Len(calls[p].items)
    /\ LET m == OrderPlacedMessage(p, calls[p].order_id,
                                   orders[calls[p].order_id].total_amount)
       IN  /\ bcast' = [bcast EXCEPT ![p] = StartBroadcast(m)]
           /\ hub' = Append(hub, m)
    /\ calls' = [calls EXCEPT ![p].pc = "bcast"]
    /\ UNCHANGED <<stock, price, orders, active_connections, cur, ws, sock,
                   received, isolation, stock0, upd,
                   auth, auth_ret>>

\* ---- ConnectionManager.broadcast ----------------------------------------
\* BroadcastNext iterating over a copy of the list taken when the broadcast
\* started (observers connect in increasing order) instead of the live list
BroadcastNext_snapshot(p) ==
    /\ cur = p
    /\ calls[p].pc = "bcast"
    /\ LET snapshot == SelectSeq([k \in 1..NumObservers |-> k],
                                 LAMBDA o : o \in bcast[p].start)
       IN  IF bcast[p].it < Len(snapshot)
           THEN LET connection == snapshot[bcast[p].it + 1]
                IN  /\ bcast' = [bcast EXCEPT ![p].it = @ + 1,
                                              ![p].conn = connection,
                                              ![p].attempted = @ \cup {connection},
                                              ![p].log = Append(@, connection)]
                    /\ calls' = [calls EXCEPT ![p].pc = "send"]
                    /\ cur' = 0
           ELSE /\ bcast' = [bcast EXCEPT ![p].returned = TRUE, ![p].conn = 0]
                /\ IF bcast[p].msg.type = "inventory_update"
                   THEN /\ calls' = [calls EXCEPT ![p].pc = "update", ![p].idx = @ + 1]
                        /\ cur' = p
                   ELSE /\ calls' = [calls EXCEPT ![p] = Finish(@, "ok", NoDetail)]
                        /\ cur' = 0
    /\ UNCHANGED <<stock, price, orders, active_connections, ws, sock,
                   received, hub, isolation, stock0, upd,
                   auth, auth_ret>>

\* the for statement asks the list iterator for the next connection: the
\* iterator is an index into the live list.  With a connection in hand the
\* coroutine is suspended in "await connection.send_json(message)"; with the
\* list exhausted broadcast returns to create_order
BroadcastNext(p) ==
    /\ cur = p
    /\ calls[p].pc = "bcast"
    /\ IF bcast[p].it < Len(active_connections)
       THEN LET connection == active_connections[bcast[p].it + 1]
            IN  /\ bcast' = [bcast EXCEPT ![p].it = @ + 1,
                                          ![p].conn = connection,
                                          ![p].attempted = @ \cup {connection},
                                          ![p].log = Append(@, connection)]
                /\ calls' = [calls EXCEPT ![p].pc = "send"]
                /\ cur' = 0
       ELSE /\ bcast' = [bcast EXCEPT ![p].returned = TRUE, ![p].conn = 0]
            /\ IF bcast[p].msg.type = "inventory_update"
               THEN /\ calls' = [calls EXCEPT ![p].pc = "update", ![p].idx = @ + 1]
                    /\ cur' = p
               ELSE /\ calls' = [calls EXCEPT ![p] = Finish(@, "ok", NoDetail)]
                    /\ cur' = 0
    /\ UNCHANGED <<stock, price, orders, active_connections, ws, sock,
                   received, hub, isolation, stock0, upd,
                   auth, auth_ret>>

\* SendReturn that, after removing a failed connection, starts the loop over
\* the list again from its first element
SendReturn_restart(p) ==
    /\ cur = 0
    /\ calls[p].pc = "send"
    /\ sock[bcast[p].conn] # "stalled"
    /\ LET connection == bcast[p].conn
       IN  IF sock[connection] = "open"
           THEN /\ received' = [received EXCEPT ![connection] = Append(@, bcast[p].msg)]
                /\ bcast' = [bcast EXCEPT ![p].delivered = Append(@, connection)]
                /\ calls' = [calls EXCEPT ![p].pc = "bcast"]
                /\ cur' = p
                /\ UNCHANGED active_connections
           ELSE IF connection \in Range(active_connections)
           THEN /\ active_connections' = Remove(active_connections, connection)
                /\ bcast' = [bcast EXCEPT ![p].failed = @ \cup {connection},
                                          ![p].it = 0]
                /\ calls' = [calls EXCEPT ![p].pc = "bcast"]
                /\ cur' = p
                /\ UNCHANGED received
           ELSE /\ calls' = [calls EXCEPT ![p] = Finish(@, "ValueError", NoDetail)]
                /\ bcast' = [bcast EXCEPT ![p].conn = 0]
                /\ cur' = 0
                /\ UNCHANGED <<active_connections, received>>
    /\ UNCHANGED <<stock, price, orders, ws, sock, hub, isolation, stock0, upd,
                   auth, auth_ret>>

\* send_json completes and the coroutine gets the loop back.  On an open
\* socket the message is delivered.  On a closed one send_json raises and
\* the handler runs active_connections.remove(connection); remove raises
\* ValueError when the connection is no longer in the list, and nothing
\* between there and the HTTP layer catches it
SendReturn(p) ==
    /\ cur = 0
    /\ calls[p].pc = "send"
    /\ sock[bcast[p].conn] # "stalled"
    /\ LET connection == bcast[p].conn
       IN  IF sock[connection] = "open"
           THEN /\ received' = [received EXCEPT ![connection] = Append(@, bcast[p].msg)]
                /\ bcast' = [bcast EXCEPT ![p].delivered = Append(@, connection)]
                /\ calls' = [calls EXCEPT ![p].pc = "bcast"]
                /\ cur' = p
                /\ UNCHANGED active_connections
           ELSE IF connection \in Range(active_connections)
           THEN /\ active_connections' = Remove(active_connections, connection)
                /\ bcast' = [bcast EXCEPT ![p].failed = @ \cup {connection}]
                /\ calls' = [calls EXCEPT ![p].pc = "bcast"]
                /\ cur' = p
                /\ UNCHANGED received
           ELSE /\ calls' = [calls EXCEPT ![p] = Finish(@, "ValueError", NoDetail)]
                /\ bcast' = [bcast EXCEPT ![p].conn = 0]
                /\ cur' = 0
                /\ UNCHANGED <<active_connections, received>>
    /\ UNCHANGED <<stock, price, orders, ws, sock, hub, isolation, stock0, upd,
                   auth, auth_ret>>

\* ---- websocket_endpoint -------------------------------------------------
\* connect that also puts the inventory back to what it was at start-up
connect_reloading(o) ==
    /\ cur = 0
    /\ ws[o] = "new"
    /\ \A q \in Observers : q < o => ws[q] # "new"
    /\ active_connections' = Append(active_connections, o)
    /\ ws' = [ws EXCEPT ![o] = "receiving"]
    /\ sock' = [sock EXCEPT ![o] = "open"]
    /\ stock' = stock0
    /\ UNCHANGED <<price, orders, cur, calls, bcast, received, hub,
                   isolation, stock0, upd,
                   auth, auth_ret>>

\* manager.connect: accept, then append; the handler then waits in
\* receive_text
connect(o) ==
    /\ cur = 0
    /\ ws[o] = "new"
    /\ \A q \in Observers : q < o => ws[q] # "new"
    /\ active_connections' = Append(active_connections, o)
    /\ ws' = [ws EXCEPT ![o] = "receiving"]
    /\ sock' = [sock EXCEPT ![o] = "open"]
    /\ UNCHANGED <<stock, price, orders, cur, calls, bcast, received, hub,
                   isolation, stock0, upd,
                   auth, auth_ret>>

\* the client goes away (the network's move, not a coroutine)
ClientClose(o) ==
    /\ cur = 0
    /\ sock[o] \in {"open", "stalled"}
    /\ sock' = [sock EXCEPT ![o] = "closed"]
    /\ UNCHANGED <<stock, price, orders, active_connections, cur, calls, bcast,
                   ws, received, hub, isolation, stock0, upd,
                   auth, auth_ret>>

\* the client stays connected and stops reading: a send to it is accepted by
\* nothing and never completes (no send carries a timeout)
ClientStall(o) ==
    /\ cur = 0
    /\ sock[o] = "open"
    /\ sock' = [sock EXCEPT ![o] = "stalled"]
    /\ UNCHANGED <<stock, price, orders, active_connections, cur, calls, bcast,
                   ws, received, hub, isolation, stock0, upd,
                   auth, auth_ret>>

\* receive_text raises WebSocketDisconnect and the handler calls
\* manager.disconnect(websocket), i.e. active_connections.remove(websocket):
\* ValueError when the websocket is not in the list
disconnect(o) ==
    /\ cur = 0
    /\ ws[o] = "receiving"
    /\ sock[o] = "closed"
    /\ IF o \in Range(active_connections)
       THEN /\ active_connections' = Remove(active_connections, o)
            /\ ws' = [ws EXCEPT ![o] = "ended"]
       ELSE /\ active_connections' = active_connections
            /\ ws' = [ws EXCEPT ![o] = "ValueError"]
    /\ UNCHANGED <<stock, price, orders, cur, calls, bcast, sock, received,
                   hub, isolation, stock0, upd,
                   auth, auth_ret>>

\* a client message arrives: receive_text returns it and the handler is
\* suspended in "await websocket.send_text(...)", the echo
receive_text(o) ==
    /\ cur = 0
    /\ ws[o] = "receiving"
    /\ sock[o] = "open"
    /\ ws' = [ws EXCEPT ![o] = "echoing"]
    /\ UNCHANGED <<stock, price, orders, active_connections, cur, calls, bcast,
                   sock, received, hub, isolation, stock0, upd,
                   auth, auth_ret>>

\* the echo's send_text completes.  On a closed socket it raises: either
\* WebSocketDisconnect (wsd), which the handler catches and answers with
\* manager.disconnect, or another exception, which no except clause of the
\* handler matches and which ends the handler as it is
send_text(o, wsd) ==
    /\ cur = 0
    /\ ws[o] = "echoing"
    /\ sock[o] # "stalled"
    /\ IF sock[o] = "open"
       THEN /\ ws' = [ws EXCEPT ![o] = "receiving"]
            /\ active_connections' = active_connections
       ELSE IF ~wsd
       THEN /\ ws' = [ws EXCEPT ![o] = "error"]
            /\ active_connections' = active_connections
       ELSE IF o \in Range(active_connections)
       THEN /\ active_connections' = Remove(active_connections, o)
            /\ ws' = [ws EXCEPT ![o] = "ended"]
       ELSE /\ active_connections' = active_connections
            /\ ws' = [ws EXCEPT ![o] = "ValueError"]
    /\ UNCHANGED <<stock, price, orders, cur, calls, bcast, sock, received,
                   hub, isolation, stock0, upd,
                   auth, auth_ret>>

\* ---- AuthenticationManager.login / logout ---------------------------------
Return(call, success, message, user_data) ==
    [call |-> call, success |-> success, message |-> message, user_data |-> user_data]

\* _api_login: the manager after the call and the tuple it returns.  A 200
\* response sets session_token and current_user to data.get("access_token")
\* and data.get("user"), None for a key the body does not have
_api_login(self, response) ==
    IF response.kind = "exception"
    THEN [self |-> self, ret |-> Return("login", FALSE, "Connection error", "None")]
    ELSE IF response.status_code = 200
    THEN [self |-> [self EXCEPT !.session_token = response.access_token,
                                !.current_user = response.user],
          ret |-> Return("login", TRUE, "Login successful", response.user)]
    ELSE [self |-> self,
          ret |-> Return("login", FALSE,
                         IF response.detail = "None" THEN "Invalid credentials"
                         ELSE response.detail, "None")]

\* _local_login: the first entry of users.json with this username and the
\* hash of this password becomes current_user (an entry is named here by its
\* username)
_local_login(self, username, password, file) ==
    LET hashed_password == Sha256(password)
        Matches(k) == /\ file.users[k].username = username
                      /\ file.users[k].password = hashed_password
    IN  IF ~file.readable
        THEN [self |-> self,
              ret |-> Return("login", FALSE, "Authentication error", "None")]
        ELSE IF \E k \in 1..Len(file.users) : Matches(k)
        THEN LET k == CHOOSE j \in 1..Len(file.users) :
                          Matches(j) /\ \A h \in 1..(j - 1) : ~Matches(h)
                 user == file.users[k].username
             IN  [self |-> [self EXCEPT !.current_user = user],
                  ret |-> Return("login", TRUE, "Login successful", user)]
        ELSE [self |-> self,
              ret |-> Return("login", FALSE, "Invalid username or password", "None")]

\* login on manager m: the API when api_url is set, users.json otherwise
login(m, username, password, response, file) ==
    LET out == IF auth[m].api_url # "None"
               THEN _api_login(auth[m], response)
               ELSE _local_login(auth[m], username, password, file)
    IN  /\ auth' = [auth EXCEPT ![m] = out.self]
        /\ auth_ret' = [auth_ret EXCEPT ![m] = out.ret]
        /\ UNCHANGED <<stock, price, orders, active_connections, cur, calls,
                       bcast, ws, sock, received, hub, isolation, stock0, upd>>

logout(m) ==
    /\ auth' = [auth EXCEPT ![m].current_user = "None", ![m].session_token = "None"]
    /\ auth_ret' = [auth_ret EXCEPT ![m] = Return("logout", TRUE, "None", "None")]
    /\ UNCHANGED <<stock, price, orders, active_connections, cur, calls,
                   bcast, ws, sock, received, hub, isolation, stock0, upd>>

is_authenticated(self) == self.current_user # "None"

get_current_user(self) == self.current_user

\* ---- update_inventory_item ----------------------------------------------
\* the row of item i once the columns set in the body are written to it
Updated(rq, column, old) ==
    IF column \in rq.fields THEN rq[column] ELSE old

\* update_inventory_item that also writes a new price into the lines of the
\* stored orders of the item and recomputes their totals
update_inventory_item_repricing(rq, ok) ==
    LET i == rq.item_id
        Reprice(line) ==
            IF line.inventory_id = i
            THEN [line EXCEPT !.unit_price = Updated(rq, "price", price[i])]
            ELSE line
        Repriced(o) ==
            LET lines == [j \in 1..Len(o.items) |-> Reprice(o.items[j])]
            IN  [o EXCEPT !.items = lines, !.total_amount = SumLines(lines)]
    IN  /\ IF i \notin Inventory
           THEN /\ upd' = [rq EXCEPT !.result = "not_found"]
                /\ UNCHANGED <<stock, price, orders>>
           ELSE IF ok
           THEN /\ stock' = [stock EXCEPT ![i] = Updated(rq, "stock_quantity", @)]
                /\ price' = [price EXCEPT ![i] = Updated(rq, "price", @)]
                /\ orders' = [k \in 1..Len(orders) |-> Repriced(orders[k])]
                /\ upd' = [rq EXCEPT !.result = "RuntimeError"]
           ELSE /\ upd' = [rq EXCEPT !.result = "persistence_error"]
                /\ UNCHANGED <<stock, price, orders>>
        /\ UNCHANGED <<active_connections, cur, calls, bcast, ws, sock,
                       received, hub, isolation, stock0, auth, auth_ret>>

\* PUT /inventory/{item_id}.  The handler is a plain def: it runs in a worker
\* thread, beside the event loop, so it is not bound by `cur`; its commit
\* falls between any two database calls of a create_order.  After commit and
\* refresh it builds the message and calls asyncio.create_task in that
\* worker thread, where no event loop is running: create_task raises
\* RuntimeError, the coroutine manager.broadcast(...) is never run and the
\* request ends with that error.  ok = FALSE is the commit raising
update_inventory_item(rq, ok) ==
    LET i == rq.item_id
    IN  /\ IF i \notin Inventory
           THEN /\ upd' = [rq EXCEPT !.result = "not_found"]
                /\ UNCHANGED <<stock, price>>
           ELSE IF ok
           THEN /\ stock' = [stock EXCEPT ![i] = Updated(rq, "stock_quantity", @)]
                /\ price' = [price EXCEPT ![i] = Updated(rq, "price", @)]
                /\ upd' = [rq EXCEPT !.result = "RuntimeError"]
           ELSE /\ upd' = [rq EXCEPT !.result = "persistence_error"]
                /\ UNCHANGED <<stock, price>>
        /\ UNCHANGED <<orders, active_connections, cur, calls, bcast, ws, sock,
                       received, hub, isolation, stock0, auth, auth_ret>>

\* ---- specification ------------------------------------------------------
\* two concurrent orders, one observer
Next ==
    \/ \E p \in Calls, r \in Requests : create_order(p, r)
    \/ \E p \in Calls : CheckUser(p)
    \/ \E p \in Calls : ValidateLine(p)
    \/ \E p \in Calls, ok \in BOOLEAN : CommitOrder(p, ok)
    \/ \E p \in Calls, ok \in BOOLEAN : UpdateStock(p, ok)
    \/ \E p \in Calls : OrderPlaced(p)
    \/ \E p \in Calls : BroadcastNext(p)
    \/ \E p \in Calls : SendReturn(p)
    \/ \E o \in OrderObservers : connect(o)
    \/ \E o \in OrderObservers : ClientClose(o)
    \/ \E o \in OrderObservers : disconnect(o)

Spec == Init /\ [][Next]_vars

\* the hub scenarios start from one database: with a single order in flight
\* neither the stock level nor the isolation level changes what the
\* ConnectionManager does
InitHub ==
    /\ Init
    /\ stock["A"] = 1
    /\ isolation = "read_committed"

\* one order, NumObservers observers
NextHub ==
    \/ \E r \in Requests : create_order(1, r)
    \/ CheckUser(1)
    \/ ValidateLine(1)
    \/ \E ok \in BOOLEAN : CommitOrder(1, ok)
    \/ \E ok \in BOOLEAN : UpdateStock(1, ok)
    \/ OrderPlaced(1)
    \/ BroadcastNext(1)
    \/ SendReturn(1)
    \/ \E o \in Observers : connect(o)
    \/ \E o \in Observers : ClientClose(o)
    \/ \E o \in Observers : disconnect(o)
    \/ \E o \in Observers : receive_text(o)
    \/ \E o \in Observers, wsd \in BOOLEAN : send_text(o, wsd)

SpecHub == InitHub /\ [][NextHub]_vars

\* the next step of call p: the event loop runs a coroutine that is ready,
\* and a send to a socket that is open or closed completes or raises
CallStep(p) ==
    \/ CheckUser(p)
    \/ ValidateLine(p)
    \/ \E ok \in BOOLEAN : CommitOrder(p, ok)
    \/ \E ok \in BOOLEAN : UpdateStock(p, ok)
    \/ OrderPlaced(p)
    \/ BroadcastNext(p)
    \/ SendReturn(p)

\* one order, NumObservers observers that may stop reading, and an event
\* loop that never leaves a call that can run waiting for ever
NextStall ==
    \/ NextHub
    \/ \E o \in Observers : ClientStall(o)

SpecStall ==
    InitHub /\ [][NextStall]_vars /\ \A p \in Calls : WF_vars(CallStep(p))

\* one order and the inventory updates that run beside it
NextInv ==
    \/ \E r \in Requests : create_order(1, r)
    \/ CheckUser(1)
    \/ ValidateLine(1)
    \/ \E ok \in BOOLEAN : CommitOrder(1, ok)
    \/ \E ok \in BOOLEAN : UpdateStock(1, ok)
    \/ OrderPlaced(1)
    \/ BroadcastNext(1)
    \/ \E rq \in UpdateRequests, ok \in BOOLEAN : update_inventory_item(rq, ok)

SpecInv == InitHub /\ [][NextInv]_vars

\* the login screens: any sequence of login and logout calls on the managers
NextAuth ==
    \/ \E m \in Managers, username \in Usernames, password \in Passwords,
          response \in ApiResponses, file \in UsersFiles :
            login(m, username, password, response, file)
    \/ \E m \in Managers : logout(m)

SpecAuth == InitHub /\ [][NextAuth]_vars

TypeOK ==
    /\ cur \in Calls \cup {0}
    /\ \A p \in Calls : calls[p].pc \in
           {"idle", "user", "validate", "update", "bcast", "send", "done"}
    /\ \A o \in Observers : ws[o] \in {"new", "receiving", "echoing", "ended", "ValueError", "error"}

\* ---- properties ---------------------------------------------------------
InFlight(p) == calls[p].pc \notin {"idle", "done"}

\* call p has validated a line on item i and has not yet decremented it
InWindow(p, i) ==
    /\ InFlight(p)
    /\ \E k \in (calls[p].ndec + 1)..Len(calls[p].order_items) :
           calls[p].order_items[k].inventory_id = i

ValidationFailures == {"user_not_found", "item_not_found", "insufficient_stock"}

OneUnitOfA == <<[inventory_id |-> "A", quantity |-> 1]>>

\* C1: whatever create_order calls have run, sequentially or interleaved,
\* and also when an order names an item twice, no item has negative stock
StockNeverNegativeC1 ==
    \A i \in Inventory : stock[i] >= 0

\* C2: an order's validate-then-decrement of an item is isolated: no two
\* orders are at the same time between their validation of an item and
\* their decrement of it
IsolatedValidateDecrementC2 ==
    \A p, q \in Calls, i \in Inventory :
        p # q => ~(InWindow(p, i) /\ InWindow(q, i))

\* C3: item A at stock 1 and two create_order calls for one unit of A each
\* (the store itself not failing): exactly one call succeeds and A ends at
\* 0, the other call fails with insufficient stock for A, available 0
LastUnitC3 ==
    ( /\ stock0["A"] = 1
      /\ \A p \in Calls :
            /\ calls[p].pc = "done"
            /\ calls[p].user_id \in Users
            /\ calls[p].items = OneUnitOfA
            /\ calls[p].result # "persistence_error" )
    => \E p \in Calls :
          /\ calls[p].result = "ok"
          /\ stock["A"] = 0
          /\ \A q \in Calls \ {p} :
                /\ calls[q].result = "insufficient_stock"
                /\ calls[q].detail.inventory_id = "A"
                /\ calls[q].detail.available = 0

\* C4: a finished call for a multi-line order has either stored the order
\* and committed every line's decrement, or stored nothing and committed no
\* decrement
AllOrNothingC4 ==
    \A p \in Calls :
        (calls[p].pc = "done" /\ Len(calls[p].items) >= 2)
        => \/ calls[p].order_id # 0 /\ calls[p].ndec = Len(calls[p].items)
           \/ calls[p].order_id = 0 /\ calls[p].ndec = 0

\* C5: a call that fails on the user check, on a missing item or on
\* insufficient stock has changed no stock, stored no order and line, and
\* broadcast no event, whichever line fails: no step of the handler before
\* the order's commit touches stock or the hub, and the failed call has no
\* order, no decrement and no event to its name
FailedValidationChangesNothingC5 ==
    [][ /\ \A p \in Calls :
              (cur = p /\ calls[p].pc \in {"user", "validate"})
              => /\ stock' = stock
                 /\ hub' = hub
                 /\ (orders' # orders => calls'[p].pc = "update")
        /\ \A p \in Calls :
              calls'[p].result \in ValidationFailures
              => /\ calls'[p].order_id = 0
                 /\ calls'[p].ndec = 0
                 /\ \A k \in 1..Len(orders') : orders'[k].call # p
                 /\ \A k \in 1..Len(hub') : hub'[k].call # p ]_vars

\* C5 witness: with an observer connected, an order of A and then of the
\* missing item Z has failed on its second line, and A's stock is what it was
WitnessC5 ==
    \E p \in Calls :
        /\ calls[p].result = "item_not_found"
        /\ calls[p].detail.line = 2
        /\ calls[p].detail.inventory_id = "Z"
        /\ calls[p].items[1].inventory_id = "A"
        /\ stock = stock0
        /\ Len(active_connections) > 0

\* C6: once the calls have finished, none of them with an exception after
\* its order was stored, every item's stock is its initial stock minus the
\* quantities that the lines of the successful orders ask of it
RECURSIVE SumOk(_, _)
SumOk(S, i) ==
    IF S = {} THEN 0
    ELSE LET p == CHOOSE x \in S : TRUE
         IN  (IF calls[p].result = "ok" THEN QtyOf(calls[p].items, i) ELSE 0)
             + SumOk(S \ {p}, i)

DecrementsExactC6 ==
    (\A p \in Calls :
        /\ ~InFlight(p)
        /\ calls[p].result \notin {"persistence_error", "ValueError"})
    => \A i \in Inventory : stock[i] = stock0[i] - SumOk(Calls, i)

\* C7: every stored order's total_amount is the sum over its lines of
\* quantity times the stored unit price, the lines are the request's lines
\* and the unit price is the item's price read when the line was validated
TotalIsSumOfLinesC7 ==
    \A k \in 1..Len(orders) :
        LET o == orders[k]
            r == calls[o.call].items
        IN  /\ o.total_amount = SumLines(o.items)
            /\ Len(o.items) = Len(r)
            /\ \A j \in 1..Len(r) :
                  /\ o.items[j].inventory_id = r[j].inventory_id
                  /\ o.items[j].quantity = r[j].quantity
                  /\ o.items[j].unit_price = price[r[j].inventory_id]

\* C7 witness: a stored order of 2 x A at 10 and 1 x B at 5, total 25
WitnessC7 ==
    \E k \in 1..Len(orders) :
        /\ Len(orders[k].items) = 2
        /\ orders[k].items[1] = [inventory_id |-> "A", quantity |-> 2, unit_price |-> 10]
        /\ orders[k].items[2] = [inventory_id |-> "B", quantity |-> 1, unit_price |-> 5]
        /\ orders[k].total_amount = 25

\* C8: when a broadcast returns, every observer that was registered when
\* it started and whose send failed is out of the active list, and every
\* other one that is still registered was sent the event
BroadcastReachesOthersC8 ==
    \A p \in Calls :
        bcast[p].returned
        => \A o \in bcast[p].start :
              /\ o \in bcast[p].failed => o \notin Range(active_connections)
              /\ (o \notin bcast[p].failed /\ o \in Range(active_connections))
                 => o \in bcast[p].attempted

\* C9: broadcast never raises to its caller, whatever sends fail and
\* whatever connect, disconnect or other broadcast runs while it is
\* suspended on a send
BroadcastNeverRaisesC9 ==
    \A p \in Calls : calls[p].result # "ValueError"

\* C10: disconnect of an observer that is not in the active list is a
\* no-op: it raises nothing and leaves the list as it is
DisconnectIdempotentC10 ==
    [][ \A o \in Observers :
          (ws[o] = "receiving" /\ ws'[o] # "receiving"
           /\ o \notin Range(active_connections))
          => (ws'[o] = "ended" /\ active_connections' = active_connections) ]_vars

\* the messages call p handed to manager.broadcast, in order
HubOf(p) == SelectSeq(hub, LAMBDA m : m.call = p)

\* the inventory rows named by the lines of a request
ItemsOf(r) == {r[k].inventory_id : k \in 1..Len(r)}

\* C11: an event of an order is in the hub only when the order and every
\* one of its lines' stock decrements have been committed, and an order one
\* of whose commits failed has no event in the hub
EventsAfterAllCommitsC11 ==
    \A k \in 1..Len(hub) :
        LET p == hub[k].call
        IN  /\ calls[p].order_id # 0
            /\ calls[p].ndec = Len(calls[p].items)
            /\ calls[p].result # "persistence_error"

\* C12: a call that returned its order has handed to the hub exactly one
\* inventory_update per distinct item of the order and then exactly one
\* order_placed, the order_placed last
OneUpdatePerItemThenPlacedC12 ==
    \A p \in Calls :
        calls[p].result = "ok"
        => LET h == HubOf(p)
               n == Len(h)
               D == ItemsOf(calls[p].items)
           IN  /\ n = Cardinality(D) + 1
               /\ h[n].type = "order_placed"
               /\ \A k \in 1..(n - 1) : h[k].type = "inventory_update"
               /\ \A i \in D :
                     Cardinality({k \in 1..(n - 1) : h[k].inventory_id = i}) = 1

\* C13: a finished call whose order is stored and whose commits all
\* succeeded has returned the order, whatever the observers did
StoredOrderReturnsC13 ==
    \A p \in Calls :
        (calls[p].pc = "done" /\ calls[p].order_id # 0
         /\ calls[p].result # "persistence_error")
        => calls[p].result = "ok"

\* C14: a request with no line, or with a line of quantity <= 0, ends in a
\* validation error (the store itself not failing), with no order stored,
\* no stock decremented and no event broadcast
RejectsEmptyOrNonPositiveC14 ==
    \A p \in Calls :
        ( /\ calls[p].pc = "done"
          /\ calls[p].result # "persistence_error"
          /\ \/ calls[p].items = <<>>
             \/ \E k \in 1..Len(calls[p].items) : calls[p].items[k].quantity <= 0 )
        => /\ calls[p].result = "invalid"
           /\ calls[p].order_id = 0
           /\ calls[p].ndec = 0
           /\ HubOf(p) = <<>>

\* the websocket_endpoint handler of observer o is over
HandlerEnded(o) == ws[o] \in {"ended", "ValueError", "error"}

\* how many times broadcast p delivered its message to observer o
Deliveries(p, o) ==
    Cardinality({k \in 1..Len(bcast[p].delivered) : bcast[p].delivered[k] = o})

\* C15: when a broadcast returns, an observer that was registered when it
\* started, is still registered and has a working socket has been delivered
\* the event exactly once
RegisteredObserverGetsEventOnceC15 ==
    \A p \in Calls :
        bcast[p].returned
        => \A o \in bcast[p].start :
              (o \in Range(active_connections) /\ sock[o] = "open")
              => Deliveries(p, o) = 1

\* C18: once the websocket_endpoint handler of an observer is over, for
\* whatever reason, the observer is not in the active list
HandlerEndedUnregisteredC18 ==
    \A o \in Observers :
        HandlerEnded(o) => o \notin Range(active_connections)

\* C19: a broadcast that returns has attempted a delivery to every observer
\* that was registered before it started and is registered when it returns
BroadcastTargetsRegisteredC19 ==
    [][ \A p \in Calls, o \in Observers :
          ( /\ ~bcast[p].returned
            /\ bcast'[p].returned
            /\ o \in bcast[p].start
            /\ o \in Range(active_connections') )
          => o \in Range(bcast'[p].log) ]_vars

\* C20: an observer is sent events only while it is registered: every
\* delivery attempt a broadcast starts targets an observer that is in the
\* active list at that moment, and an observer's received events grow only
\* by the event of a broadcast that is running, suspended on the send to
\* that observer, while the observer is in the active list (nothing is
\* stored or replayed)
SentOnlyWhileRegisteredC20 ==
    [][ \A o \in Observers :
          /\ \A p \in Calls :
                ( /\ Len(bcast'[p].log) = Len(bcast[p].log) + 1
                  /\ bcast'[p].log[Len(bcast'[p].log)] = o )
                => o \in Range(active_connections)
          /\ received'[o] # received[o]
             => /\ o \in Range(active_connections)
                /\ \E p \in Calls :
                      /\ calls[p].pc = "send"
                      /\ bcast[p].conn = o
                      /\ ~bcast[p].returned
                      /\ received'[o] = Append(received[o], bcast[p].msg) ]_vars

\* an observer that registered and unregistered before a broadcast started
\* has received nothing, while that broadcast delivered to another observer
\* and returned
WitnessC20 ==
    \E p \in Calls, o \in Observers :
        /\ bcast[p].returned
        /\ bcast[p].delivered # <<>>
        /\ o \notin bcast[p].start
        /\ ws[o] = "ended"
        /\ o \notin Range(active_connections)
        /\ received[o] = <<>>

\* C16: while a broadcast is suspended on a send, an observer that was
\* registered when it started, is registered and reads its socket is
\* eventually sent the event, unless it leaves or stops reading first or the
\* broadcast ends
StallDoesNotBlockOthersC16 ==
    \A p \in Calls, o \in Observers :
        ( /\ calls[p].pc = "send"
          /\ o \in bcast[p].start
          /\ o \in Range(active_connections)
          /\ sock[o] = "open"
          /\ o \notin Range(bcast[p].log) )
        ~> ( \/ o \in Range(bcast[p].log)
             \/ o \notin Range(active_connections)
             \/ sock[o] # "open"
             \/ bcast[p].returned
             \/ calls[p].pc = "done" )

\* C17: every create_order call that has started eventually finishes, with
\* the order or with an error
CreateOrderTerminatesC17 ==
    \A p \in Calls : (calls[p].pc # "idle") ~> (calls[p].pc = "done")

\* a step of the ConnectionManager: connect or disconnect changes the active
\* list, a delivery changes what an observer received, and a running
\* broadcast moves on (next connection, failed send, return)
HubStep ==
    \/ active_connections' # active_connections
    \/ received' # received
    \/ \E p \in Calls :
          /\ ~bcast[p].returned
          /\ bcast'[p] # bcast[p]
          /\ bcast'[p].msg = bcast[p].msg

\* C21: connect, disconnect and broadcast leave the business data as it is:
\* no step of the hub changes an item's stock or price, or an order or one
\* of its lines, whether the sends succeed or fail
HubLeavesBusinessDataC21 ==
    [][ HubStep => UNCHANGED <<stock, price, orders>> ]_vars

\* an order is stored and stock has been taken, a send of one of its events
\* has failed, another one was delivered, and an observer has disconnected
WitnessC21 ==
    \E p \in Calls, o \in Observers :
        /\ orders # <<>>
        /\ stock # stock0
        /\ bcast[p].failed # {}
        /\ received[o] # <<>>
        /\ \E q \in Observers : ws[q] = "ended"

LineFails(r, k) ==
    \/ r[k].inventory_id \notin Inventory
    \/ stock[r[k].inventory_id] < r[k].quantity

\* the error create_order owes a request: that of the first failing check,
\* the user first, then the lines in order, existence before stock
FirstFailureIs(c) ==
    IF c.user_id \notin Users
    THEN c.result = "user_not_found"
    ELSE \E k \in 1..Len(c.items) :
            /\ LineFails(c.items, k)
            /\ \A j \in 1..(k - 1) : ~LineFails(c.items, j)
            /\ c.detail.inventory_id = c.items[k].inventory_id
            /\ IF c.items[k].inventory_id \notin Inventory
               THEN c.result = "item_not_found"
               ELSE /\ c.result = "insufficient_stock"
                    /\ c.detail.available = stock[c.items[k].inventory_id]
                    /\ c.detail.requested = c.items[k].quantity

\* C24: a call that fails a check fails with the error of the first failing
\* check (user, then the lines in request order, existence before stock),
\* naming the missing id, or the item with the requested and the available
\* quantity; and a call that gets to store its order had no failing check
FirstFailingCheckReportedC24 ==
    [][ \A p \in Calls :
          /\ (calls[p].pc # "done" /\ calls'[p].result \in ValidationFailures)
             => FirstFailureIs(calls'[p])
          /\ (calls[p].pc = "validate" /\ calls'[p].pc \in {"update", "done"}
              /\ calls'[p].result \notin ValidationFailures)
             => /\ calls[p].user_id \in Users
                /\ \A k \in 1..Len(calls[p].items) : ~LineFails(calls[p].items, k) ]_vars

\* C25: every inventory_update event of an order carries the stock its item
\* has once the order is fully committed, the stock before the order minus
\* all the quantities the order asks of that item, and the item's price;
\* the order_placed event carries the stored order's total_amount.  Stated
\* for an order that runs alone, so that the stock before it is stock0
EventsCarryFinalStockC25 ==
    \A k \in 1..Len(hub) :
        LET m == hub[k]
            p == m.call
        IN  (\A q \in Calls \ {p} : calls[q].pc = "idle")
            => IF m.type = "inventory_update"
               THEN /\ m.stock_quantity =
                          stock0[m.inventory_id] - QtyOf(calls[p].items, m.inventory_id)
                    /\ m.price = price[m.inventory_id]
               ELSE /\ m.order_id = calls[p].order_id
                    /\ m.total_amount = orders[m.order_id].total_amount

\* C26: within one broadcast no observer is sent the event more than once:
\* no observer occurs twice among the sends the broadcast started, whatever
\* connect, disconnect and failed sends did to the list meanwhile
NoObserverSentTwiceC26 ==
    \A p \in Calls :
        \A j, k \in 1..Len(bcast[p].log) :
            bcast[p].log[j] = bcast[p].log[k] => j = k

\* a broadcast that sent to two observers, one of which registered after it
\* had started, while an observer it started with has left the list
WitnessC26 ==
    \E p \in Calls :
        /\ Len(bcast[p].log) >= 2
        /\ \E o \in Range(bcast[p].log) : o \notin bcast[p].start
        /\ \E o \in bcast[p].start : o \notin Range(active_connections)

\* C27: an observer that registers while a broadcast is suspended on a send,
\* and is still registered when the broadcast returns, has been sent that
\* broadcast's event
LateObserverSentInFlightEventC27 ==
    [][ \A p \in Calls, o \in Observers :
          ( /\ ~bcast[p].returned
            /\ bcast'[p].returned
            /\ bcast[p].log # <<>>
            /\ o \notin bcast[p].start
            /\ o \in Range(active_connections') )
          => o \in Range(bcast'[p].log) ]_vars

\* C28: per observer, events arrive in emission order.  Every event an
\* observer receives is delivered while the create_order call that emitted
\* it is suspended in that very broadcast, so after the call has started and
\* before it returns, and it is the event the call emitted last: no event
\* of an order arrives after the order's call returned, hence none after an
\* event of an order whose call started later.
\* And an inventory_update of an order never arrives after that order's
\* order_placed, also when the events of two orders interleave
EventsInEmissionOrderC28 ==
    [][ \A o \in Observers :
          received'[o] # received[o]
          => LET m == received'[o][Len(received'[o])]
             IN  /\ received'[o] = Append(received[o], m)
                 /\ calls[m.call].pc = "send"
                 /\ bcast[m.call].msg = m
                 /\ HubOf(m.call) # <<>>
                 /\ m = HubOf(m.call)[Len(HubOf(m.call))]
                 /\ m.type = "inventory_update"
                    => \A k \in 1..Len(received[o]) :
                          ~( received[o][k].call = m.call
                             /\ received[o][k].type = "order_placed" ) ]_vars

\* an observer has received an inventory_update and then the order_placed of
\* one order, and an event of the other order in between
WitnessC28 ==
    \E o \in Observers, p, q \in Calls :
        \E i, j, k \in 1..Len(received[o]) :
            /\ i < j /\ j < k /\ p # q
            /\ received[o][i].call = p /\ received[o][i].type = "inventory_update"
            /\ received[o][j].call = q
            /\ received[o][k].call = p /\ received[o][k].type = "order_placed"

\* C23: the unit price of a stored line and the total of a stored order are
\* those computed when the lines were validated, and no later step, a price
\* change by update_inventory_item included, changes a stored order
StoredPricesFixedC23 ==
    [][ /\ Len(orders') >= Len(orders)
        /\ \A k \in 1..Len(orders) : orders'[k] = orders[k]
        /\ \A k \in (Len(orders) + 1)..Len(orders') :
              LET c == calls[orders'[k].call]
              IN  /\ orders'[k].items = c.order_items
                  /\ orders'[k].total_amount = c.total_amount
                  /\ orders'[k].total_amount = SumLines(orders'[k].items) ]_vars

\* a stored order has a line whose unit price is no longer the item's price
WitnessC23 ==
    \E k \in 1..Len(orders) :
        /\ orders[k].total_amount = SumLines(orders[k].items)
        /\ \E j \in 1..Len(orders[k].items) :
              LET line == orders[k].items[j]
              IN  /\ line.unit_price # price[line.inventory_id]
                  /\ upd.result = "RuntimeError"
                  /\ upd.item_id = line.inventory_id
                  /\ "price" \in upd.fields

\* a step of update_inventory_item: it leaves its request and outcome in
\* upd, and it is the only step that writes a row without moving a call
UpdateStep ==
    \/ upd' # upd
    \/ calls' = calls /\ (stock' # stock \/ price' # price)

\* C29: an update_inventory_item that commits a change to an existing item
\* changes only the columns set in its request and hands to the hub exactly
\* one inventory_update carrying the item's committed stock and price; for
\* an id without a row it fails with not-found, changes no item and hands
\* nothing to the hub
UpdateBroadcastsOnceC29 ==
    [][ UpdateStep
        => LET rq == upd'
               i == rq.item_id
           IN  IF i \in Inventory /\ rq.result # "persistence_error"
               THEN /\ stock' = [stock EXCEPT ![i] = Updated(rq, "stock_quantity", @)]
                    /\ price' = [price EXCEPT ![i] = Updated(rq, "price", @)]
                    /\ Len(hub') = Len(hub) + 1
                    /\ hub'[Len(hub')].type = "inventory_update"
                    /\ hub'[Len(hub')].inventory_id = i
                    /\ hub'[Len(hub')].stock_quantity = stock'[i]
                    /\ hub'[Len(hub')].price = price'[i]
               ELSE /\ i \notin Inventory => rq.result = "not_found"
                    /\ stock' = stock
                    /\ price' = price
                    /\ hub' = hub ]_vars

\* C30: after a login that returns success the manager is authenticated and
\* its current user is the user data returned; a login that returns failure
\* leaves current_user and session_token as they were; after logout the
\* manager is not authenticated and has no session token
LoginLogoutStateC30 ==
    [][ \A m \in Managers :
          (auth'[m] # auth[m] \/ auth_ret'[m] # auth_ret[m])
          => LET ret == auth_ret'[m]
             IN  /\ (ret.call = "login" /\ ret.success)
                    => /\ is_authenticated(auth'[m])
                       /\ get_current_user(auth'[m]) = ret.user_data
                 /\ (ret.call = "login" /\ ~ret.success)
                    => /\ auth'[m].current_user = auth[m].current_user
                       /\ auth'[m].session_token = auth[m].session_token
                 /\ ret.call = "logout"
                    => /\ ~is_authenticated(auth'[m])
                       /\ auth'[m].session_token = "None" ]_vars

====
